---------------------------- MODULE Spec2Model ----------------------------
(***************************************************************************)
(* A model of DataProcess.processData (src/DataProcess/DataProcess.py):    *)
(* the historical-track segmentation and time resolution of TCRM.          *)
(*                                                                         *)
(* Conventions.  numpy arrays are 0-based, TLA+ sequences are 1-based:     *)
(* position i of the code is element i+1 of the sequence.  Longitudes and  *)
(* latitudes are whole degrees.  Elapsed time dt is kept in minutes (60    *)
(* times the code's hours) so that it stays an integer.  A date string is  *)
(* the tuple of the numeric fields its text shows, <<Y, M, D, h, m>>, and  *)
(* the empty tuple is a text that does not match the date format.          *)
(***************************************************************************)
EXTENDS Integers, Sequences, FiniteSets, TLC

VARIABLES
    inputData,    \* colReadCSV's dict: column name -> list of values
    startSeason,  \* [DataProcess] StartSeason of the configuration
    pc,           \* position of processData
    exitStatus,   \* process exit status (0 while running)
    indicator,    \* the Track Indicator
    year, month, day, hour, minute,
    dt,           \* elapsed minutes since the previous observation
    jdays,        \* day of year of every observation
    lon, lat,     \* normalised positions
    initIndex,    \* non-singleton Initial-Index
    written,      \* flSaveFile: output name -> series written
    inputPressureUnits, inputSpeedUnits, inputLengthUnits,
                  \* [DataProcess] units of the configuration
    pressure,     \* central pressure, hPa, after the plausibility filter
    vmax          \* maximum wind speed, m/s

vars == <<inputData, startSeason, pc, exitStatus, indicator, year, month, day,
          hour, minute, dt, jdays, lon, lat, initIndex, written,
          inputPressureUnits, inputSpeedUnits, inputLengthUnits, pressure,
          vmax>>

\* The configured units never change during a run.
units == <<inputPressureUnits, inputSpeedUnits, inputLengthUnits>>

\* The arrays of the quantity conversion (lines 429-447).
converted == <<pressure, vmax>>

(***************************************************************************)
(* Bounds of the model.                                                    *)
(***************************************************************************)
MaxLen == 3

\* What an element of a numpy.empty array may hold.
Garbage == {0, 50}

\* sys.maxint, the sentinel of every derived series.  It stands for a
\* magnitude no physical value comes near: as a floating-point operand it
\* absorbs every physical value added to it or subtracted from it.
MaxInt == 2147483647

(***************************************************************************)
(* numpy helpers.                                                          *)
(***************************************************************************)
has_key(data, k) == k \in DOMAIN data

diff(a) == [i \in 1..(Len(a) - 1) |-> a[i + 1] - a[i]]

ones(n) == [i \in 1..n |-> 1]

zeros(n) == [i \in 1..n |-> 0]

\* Truth value numpy gives an integer used as a mask or condition.
Truthy(x) == x # 0

RECURSIVE WhereFrom(_, _)
WhereFrom(b, i) ==
    IF i > Len(b) THEN <<>>
    ELSE (IF b[i] THEN <<i>> ELSE <<>>) \o WhereFrom(b, i + 1)

\* where(b)[0]: the positions at which b holds, ascending.
where(b) == WhereFrom(b, 1)

\* a[idx] for an index array idx.
take(a, idx) == [k \in 1..Len(idx) |-> a[idx[k]]]

\* a.compress(cond): the elements of a at which cond is truthy.
compress(a, cond) == take(a, where([i \in 1..Len(cond) |-> Truthy(cond[i])]))

\* diff(a) of a float array that may hold the sentinel.
diffFloat(a) ==
    [i \in 1..(Len(a) - 1) |->
        IF a[i + 1] = MaxInt /\ a[i] = MaxInt THEN 0
        ELSE IF a[i + 1] = MaxInt THEN MaxInt
        ELSE IF a[i] = MaxInt THEN -MaxInt
        ELSE a[i + 1] - a[i]]

\* x = empty(n); x[1:] = x_ : element 0 is never assigned.
WithGarbageHead(g, x_, n) == IF n = 0 THEN <<>> ELSE <<g>> \o x_

\* flatnonzero(initIndex[:-1]) + 1: the positions after an initial index.
AfterInit(initIdx) ==
    where([i \in 1..Len(initIdx) |-> i > 1 /\ Truthy(initIdx[i - 1])])

\* indicator_ = indicator.copy(); indicator_.put(index, 1)
PutOnes(ind, index) ==
    [i \in 1..Len(ind) |->
        IF \E k \in 1..Len(index) : index[k] = i THEN 1 ELSE ind[i]]

\* a.compress(indicator == 0)
compressZero(a, ind) ==
    take(a, where([i \in 1..Len(ind) |-> ind[i] = 0]))

(***************************************************************************)
(* Floating-point quotients.  A quantity x divided by dt is kept as the    *)
(* fraction <<n, d>> = x / dt in lowest terms with d >= 0, dt in minutes:  *)
(* its value is 60 * n / d per hour.  A zero d makes it nan (n = 0) or     *)
(* infinite (n # 0), as numpy division does.                               *)
(***************************************************************************)
Abs(x) == IF x < 0 THEN -x ELSE x

RECURSIVE GCD(_, _)
GCD(a, b) == IF b = 0 THEN a ELSE GCD(b, a % b)

\* The fraction n / d in lowest terms.
Fraction(n, d) ==
    LET g == GCD(Abs(n), Abs(d))
    IN  IF g = 0 THEN <<0, 0>>
        ELSE IF d < 0 THEN <<(-n) \div g, (-d) \div g>>
        ELSE <<n \div g, d \div g>>

\* x / dt, element by element (dt in minutes).
Quotient(x, dt_) == [i \in 1..Len(x) |-> Fraction(x[i], dt_[i])]

\* The sentinel as a quotient: sys.maxint per hour.
SentinelQ == <<MaxInt, 60>>

isnan(q) == q[1] = 0 /\ q[2] = 0

isinf(q) == q[1] # 0 /\ q[2] = 0

\* The numerator's sign once the denominator is made positive.
Num(q) == IF q[2] < 0 THEN -q[1] ELSE q[1]

\* q > c and q < c for a physical bound c.
Greater(q, c) ==
    /\ ~isnan(q)
    /\ IF q[2] = 0 \/ Abs(q[1]) = MaxInt THEN Num(q) > 0
       ELSE 60 * Num(q) > c * Abs(q[2])

\* Faulty variant of Less: no quotient counts as below the bound.
LessNever(q, c) == FALSE

Less(q, c) ==
    /\ ~isnan(q)
    /\ IF q[2] = 0 \/ Abs(q[1]) = MaxInt THEN Num(q) < 0
       ELSE 60 * Num(q) < c * Abs(q[2])

\* (q >= sys.maxint) | (q <= -sys.maxint)
Huge(q) ==
    \/ isinf(q)
    \/ q[2] # 0 /\ Abs(q[1]) = MaxInt /\ Abs(q[2]) <= 60

\* putmask(a, mask, sys.maxint) for a series a of quotients.
putmaskQ(a, mask) == [i \in 1..Len(a) |-> IF mask[i] THEN SentinelQ ELSE a[i]]

\* putmask(rate, x >= sys.maxint, sys.maxint): the rate of a missing value.
MaskMissing(rate, x) ==
    putmaskQ(rate, [i \in 1..Len(rate) |-> x[i] >= MaxInt])

\* putmask(a[1:], mask[:-1], ...): the mask moved one position down.
Shifted(mask) == [i \in 1..Len(mask) |-> i > 1 /\ mask[i - 1]]

(***************************************************************************)
(* datetime.                                                               *)
(***************************************************************************)
IsLeap(y) == (y % 4 = 0) /\ ((y % 100 # 0) \/ (y % 400 = 0))

DaysInMonth(y, m) ==
    IF m = 2 THEN (IF IsLeap(y) THEN 29 ELSE 28)
    ELSE IF m \in {4, 6, 9, 11} THEN 30 ELSE 31

RECURSIVE DaysBeforeMonth(_, _)
DaysBeforeMonth(y, m) ==
    IF m <= 1 THEN 0 ELSE DaysBeforeMonth(y, m - 1) + DaysInMonth(y, m - 1)

\* Faulty variant of ValidDateTime: the month's upper limit is not checked.
ValidDateTimeNoMonthLimit(y, m, d, h, mi) ==
    /\ y >= 1 /\ y <= 9999
    /\ m >= 1
    /\ d >= 1 /\ d <= DaysInMonth(y, m)
    /\ h >= 0 /\ h <= 23
    /\ mi >= 0 /\ mi <= 59

\* datetime.datetime(y, m, d, h, mi, 0) raises ValueError unless this holds.
ValidDateTime(y, m, d, h, mi) ==
    /\ y >= 1 /\ y <= 9999
    /\ m >= 1 /\ m <= 12
    /\ d >= 1 /\ d <= DaysInMonth(y, m)
    /\ h >= 0 /\ h <= 23
    /\ mi >= 0 /\ mi <= 59

\* Proleptic Gregorian ordinal of a date (day 1 is 0001-01-01).
toordinal(y, m, d) ==
    365 * (y - 1) + ((y - 1) \div 4) - ((y - 1) \div 100) + ((y - 1) \div 400)
        + DaysBeforeMonth(y, m) + d

\* Faulty variant of date2num: the time within the year, the year ignored.
date2numWithinYear(y, m, d, h, mi) ==
    ((DaysBeforeMonth(y, m) + d) * 24 + h) * 60 + mi

\* pylab.date2num, in minutes instead of days.
date2num(y, m, d, h, mi) == (toordinal(y, m, d) * 24 + h) * 60 + mi

\* int(strftime("%j")): the day of the year.
DayOfYear(y, m, d) == DaysBeforeMonth(y, m) + d

\* datetime.strptime(s, datefmt) succeeds on s.
strptimeOK(s) == Len(s) = 5 /\ ValidDateTime(s[1], s[2], s[3], s[4], s[5])


(***************************************************************************)
(* Track Segmenter: the primary strategies of processData.                 *)
(***************************************************************************)
\* Faulty variant of PrimaryStrategy: the serial number is tried before the index.
PrimaryStrategySerialFirst(data) ==
    IF has_key(data, "tcserialno") THEN "tcserialno"
    ELSE IF has_key(data, "index") THEN "index"
    ELSE IF has_key(data, "season") /\ has_key(data, "num") THEN "season_num"
    ELSE IF has_key(data, "num") THEN "num"
    ELSE "none"

\* The if/elif cascade choosing the primary strategy.
PrimaryStrategy(data) ==
    IF has_key(data, "index") THEN "index"
    ELSE IF has_key(data, "tcserialno") THEN "tcserialno"
    ELSE IF has_key(data, "season") /\ has_key(data, "num") THEN "season_num"
    ELSE IF has_key(data, "num") THEN "num"
    ELSE "none"

\* indicator = array(inputData['index'], 'i')
IndexIndicator(index) == index

\* Faulty variant of SerialIndicator: each serial number is compared with the first.
SerialIndicatorAgainstFirst(tcSerialNo) ==
    [i \in 1..Len(tcSerialNo) |->
        IF i > 1 /\ tcSerialNo[i] = tcSerialNo[1] THEN 0 ELSE 1]

\* ones, then 0 wherever the serial number repeats the previous one.
SerialIndicator(tcSerialNo) ==
    [i \in 1..Len(tcSerialNo) |->
        IF i > 1 /\ tcSerialNo[i] = tcSerialNo[i - 1] THEN 0 ELSE 1]

\* ones, then 0 wherever season and number both repeat the previous ones.
SeasonNumIndicator(season, num) ==
    [i \in 1..Len(num) |->
        IF i > 1 /\ season[i] = season[i - 1] /\ num[i] = num[i - 1]
        THEN 0 ELSE 1]

\* ind_ = diff(num); ind_[where(ind_ > 0)] = 1; indicator[1:] = ind_
NumIndicator(num) ==
    LET ind_ == diff(num)
    IN  [i \in 1..Len(num) |->
            IF i = 1 THEN 1
            ELSE IF ind_[i - 1] > 0 THEN 1 ELSE ind_[i - 1]]

PrimaryIndicator(data) ==
    CASE PrimaryStrategy(data) = "index" -> IndexIndicator(data["index"])
      [] PrimaryStrategy(data) = "tcserialno" ->
            SerialIndicator(data["tcserialno"])
      [] PrimaryStrategy(data) = "season_num" ->
            SeasonNumIndicator(data["season"], data["num"])
      [] PrimaryStrategy(data) = "num" -> NumIndicator(data["num"])

\* Lines 280-304: a primary strategy applies and sets the indicator.
Segment ==
    /\ pc = "segment"
    /\ PrimaryStrategy(inputData) # "none"
    /\ indicator' = PrimaryIndicator(inputData)
    /\ pc' = "time"
    /\ UNCHANGED <<units, converted, inputData, startSeason, exitStatus, year, month, day, hour,
                   minute, dt, jdays, lon, lat, initIndex, written>>

\* Faulty variant of SegmentFail: the error is logged and the run goes on.
SegmentFailContinues ==
    /\ pc = "segment"
    /\ PrimaryStrategy(inputData) = "none"
    /\ pc' = "time"
    /\ UNCHANGED <<units, converted, inputData, startSeason, exitStatus, indicator, year, month,
                   day, hour, minute, dt, jdays, lon, lat, initIndex, written>>

\* Lines 305-307: no column group delimits tracks; sys.exit(2).
SegmentFail ==
    /\ pc = "segment"
    /\ PrimaryStrategy(inputData) = "none"
    /\ pc' = "failed"
    /\ exitStatus' = 2
    /\ UNCHANGED <<units, converted, inputData, startSeason, indicator, year, month, day, hour,
                   minute, dt, jdays, lon, lat, initIndex, written>>

(***************************************************************************)
(* Time Resolver.                                                          *)
(***************************************************************************)
\* Lines 312-315: dt from the age column (hours, kept here in minutes).
ResolveAge ==
    /\ pc = "time"
    /\ has_key(inputData, "age")
    /\ \E g \in Garbage :
          dt' = WithGarbageHead(g,
                    [i \in 1..(Len(inputData["age"]) - 1) |->
                        60 * diff(inputData["age"])[i]],
                    Len(indicator))
    /\ pc' = "split"
    /\ UNCHANGED <<units, converted, inputData, startSeason, exitStatus, indicator, year, month,
                   day, hour, minute, jdays, lon, lat, initIndex, written>>

\* The loop of lines 324-336: a record that fails to parse is logged and
\* keeps the d of the last record that parsed.
RECURSIVE ParsedFrom(_, _, _)
ParsedFrom(date, i, d) ==
    IF i > Len(date) THEN <<>>
    ELSE LET d1 == IF strptimeOK(date[i]) THEN date[i] ELSE d
         IN  <<d1>> \o ParsedFrom(date, i + 1, d1)

ParsedDates(date) == ParsedFrom(date, 1, <<>>)

\* d is still unbound when the first record fails: year[i] = d.year raises
\* NameError, which nothing catches.
ParseRaises(date) == Len(date) > 0 /\ ~strptimeOK(date[1])

\* Lines 317-336 when every d is bound.
ParseDates ==
    /\ pc = "time"
    /\ ~has_key(inputData, "age")
    /\ has_key(inputData, "date")
    /\ ~ParseRaises(inputData["date"])
    /\ LET d == ParsedDates(inputData["date"])
       IN  /\ year' = [i \in 1..Len(d) |-> d[i][1]]
           /\ month' = [i \in 1..Len(d) |-> d[i][2]]
           /\ day' = [i \in 1..Len(d) |-> d[i][3]]
           /\ hour' = [i \in 1..Len(d) |-> d[i][4]]
           /\ minute' = [i \in 1..Len(d) |-> d[i][5]]
    /\ pc' = "filter"
    /\ UNCHANGED <<units, converted, inputData, startSeason, exitStatus, indicator, dt, jdays,
                   lon, lat, initIndex, written>>

\* Lines 317-336 when record 0 fails to parse: uncaught NameError.
ParseDatesCrash ==
    /\ pc = "time"
    /\ ~has_key(inputData, "age")
    /\ has_key(inputData, "date")
    /\ ParseRaises(inputData["date"])
    /\ pc' = "crashed"
    /\ exitStatus' = 1
    /\ UNCHANGED <<units, converted, inputData, startSeason, indicator, year, month, day, hour,
                   minute, dt, jdays, lon, lat, initIndex, written>>

\* Lines 347-353: the dummy year; 0 stands for fill_year not yet assigned.
RECURSIVE FillFrom(_, _, _, _)
FillFrom(ind, mon, i, fill_year) ==
    IF i > Len(ind) THEN <<>>
    ELSE LET f1 == IF ind[i] > 0 THEN 2000 ELSE fill_year
             f2 == IF mon[i] = 1 THEN 2001 ELSE f1
         IN  <<f2>> \o FillFrom(ind, mon, i + 1, f2)

FillYear(ind, mon) == FillFrom(ind, mon, 1, 0)

\* year[i] = fill_year with fill_year unassigned raises UnboundLocalError.
FillRaises(ind, mon) == \E i \in 1..Len(ind) : FillYear(ind, mon)[i] = 0

CalendarRaises(data, ind) ==
    \/ ~has_key(data, "month") \/ ~has_key(data, "day") \/ ~has_key(data, "hour")
    \/ (~has_key(data, "year") /\ FillRaises(ind, data["month"]))

\* Lines 338-361: calendar columns, dummy year, dummy minute.
CalendarFields ==
    /\ pc = "time"
    /\ ~has_key(inputData, "age")
    /\ ~has_key(inputData, "date")
    /\ ~CalendarRaises(inputData, indicator)
    /\ month' = inputData["month"]
    /\ day' = inputData["day"]
    /\ hour' = inputData["hour"]
    /\ year' = IF has_key(inputData, "year") THEN inputData["year"]
               ELSE FillYear(indicator, inputData["month"])
    /\ minute' = IF has_key(inputData, "minute") THEN inputData["minute"]
                 ELSE zeros(Len(inputData["hour"]))
    /\ pc' = "filter"
    /\ UNCHANGED <<units, converted, inputData, startSeason, exitStatus, indicator, dt, jdays,
                   lon, lat, initIndex, written>>

\* Lines 338-353 raising KeyError or UnboundLocalError, uncaught.
CalendarFieldsCrash ==
    /\ pc = "time"
    /\ ~has_key(inputData, "age")
    /\ ~has_key(inputData, "date")
    /\ CalendarRaises(inputData, indicator)
    /\ pc' = "crashed"
    /\ exitStatus' = 1
    /\ UNCHANGED <<units, converted, inputData, startSeason, indicator, year, month, day, hour,
                   minute, dt, jdays, lon, lat, initIndex, written>>

\* good_indices = where([k >= startSeason for k in inputData['season']])[0]
good_indices(season, cutoff) ==
    where([i \in 1..Len(season) |-> season[i] >= cutoff])

\* Lines 363-376: the minimum-season filter of every column, the calendar
\* arrays and the indicator (skipped without a season column).
SeasonFilter ==
    /\ pc = "filter"
    /\ IF has_key(inputData, "season")
       THEN LET good == good_indices(inputData["season"], startSeason)
            IN  /\ inputData' = [k \in DOMAIN inputData |->
                                    take(inputData[k], good)]
                /\ year' = take(year, good)
                /\ month' = take(month, good)
                /\ day' = take(day, good)
                /\ hour' = take(hour, good)
                /\ minute' = take(minute, good)
                /\ indicator' = take(indicator, good)
       ELSE UNCHANGED <<inputData, year, month, day, hour, minute, indicator>>
    /\ pc' = "construct"
    /\ UNCHANGED <<units, converted, startSeason, exitStatus, dt, jdays, lon, lat, initIndex,
                   written>>

\* Every record forms a datetime.datetime.
DatesValid(y, m, d, h, mi) ==
    \A i \in 1..Len(y) : ValidDateTime(y[i], m[i], d[i], h[i], mi[i])

\* Lines 379-403: day_, time_, dt and jdays.
ConstructDates ==
    /\ pc = "construct"
    /\ DatesValid(year, month, day, hour, minute)
    /\ LET time_ == [i \in 1..Len(year) |->
                        date2num(year[i], month[i], day[i], hour[i], minute[i])]
       IN  \E g \in Garbage :
               dt' = WithGarbageHead(g, diff(time_), Len(indicator))
    /\ jdays' = [i \in 1..Len(year) |-> DayOfYear(year[i], month[i], day[i])]
    /\ pc' = "split"
    /\ UNCHANGED <<units, converted, inputData, startSeason, exitStatus, indicator, year, month,
                   day, hour, minute, lon, lat, initIndex, written>>

\* Lines 386-390: ValueError from datetime.datetime; sys.exit(2).
ConstructDatesFail ==
    /\ pc = "construct"
    /\ ~DatesValid(year, month, day, hour, minute)
    /\ pc' = "failed"
    /\ exitStatus' = 2
    /\ UNCHANGED <<units, converted, inputData, startSeason, indicator, year, month, day, hour,
                   minute, dt, jdays, lon, lat, initIndex, written>>

(***************************************************************************)
(* Forced split, origin series, Initial-Index.                             *)
(***************************************************************************)
\* lon = mod(array(inputData['lon'], 'd'), 360)
NormaliseLon(rawLon) == [i \in 1..Len(rawLon) |-> rawLon[i] % 360]

\* indicator[where(delta_lon > 15)[0] + 1] = 1, likewise delta_lat > 5.
SplitIndicator(ind, lo, la) ==
    LET delta_lon == diff(lo)
        delta_lat == diff(la)
    IN  [i \in 1..Len(ind) |->
            IF i > 1 /\ (delta_lon[i - 1] > 15 \/ delta_lat[i - 1] > 5)
            THEN 1 ELSE ind[i]]

\* Lines 405-414.
ForcedSplit ==
    /\ pc = "split"
    /\ lat' = inputData["lat"]
    /\ lon' = NormaliseLon(inputData["lon"])
    /\ indicator' = SplitIndicator(indicator, lon', lat')
    /\ pc' = "origin"
    /\ UNCHANGED <<units, converted, inputData, startSeason, exitStatus, year, month, day, hour,
                   minute, dt, jdays, initIndex, written>>

\* year is a bound name only when the calendar branch ran.
YearBound(data) == ~has_key(data, "age")

\* Lines 416-427: the origin season (or year) series, the first output.
SaveOrigin ==
    /\ pc = "origin"
    /\ has_key(inputData, "season") \/ YearBound(inputData)
    /\ written' = written @@
          ("origin_year" :>
              IF has_key(inputData, "season")
              THEN compress(inputData["season"], indicator)
              ELSE compress(year, indicator))
    /\ pc' = "convert"
    /\ UNCHANGED <<units, converted, inputData, startSeason, exitStatus, indicator, year, month,
                   day, hour, minute, dt, jdays, lon, lat, initIndex>>

\* Line 421 with an age column and no season: NameError on year, uncaught.
SaveOriginCrash ==
    /\ pc = "origin"
    /\ ~has_key(inputData, "season")
    /\ ~YearBound(inputData)
    /\ pc' = "crashed"
    /\ exitStatus' = 1
    /\ UNCHANGED <<units, converted, inputData, startSeason, indicator, year, month, day, hour,
                   minute, dt, jdays, lon, lat, initIndex, written>>

(***************************************************************************)
(* Quantity conversion: pressure, maximum wind speed, radius of maximum    *)
(* wind.                                                                   *)
(***************************************************************************)
\* metutils.convert to the canonical unit (hPa, m/s, km): the factor of
\* each input unit as <<multiplier, divisor>>.
UnitFactor(u) ==
    CASE u = "hPa" -> <<1, 1>>
      [] u = "kPa" -> <<10, 1>>
      [] u = "mps" -> <<1, 1>>
      [] u = "kmh" -> <<5, 18>>
      [] u = "km" -> <<1, 1>>

convert(value, u) == (value * UnitFactor(u)[1]) \div UnitFactor(u)[2]

\* novalue_index = where(x == sys.maxint); x = convert(x, ...);
\* x[novalue_index] = sys.maxint
ConvertKeepingSentinel(raw, u) ==
    [i \in 1..Len(raw) |->
        IF raw[i] = MaxInt THEN MaxInt ELSE convert(raw[i], u)]

\* Faulty variant of PlausiblePressure: only the lower bound is applied.
PlausiblePressureLowerOnly(p) ==
    [i \in 1..Len(p) |-> IF p[i] < 600 THEN MaxInt ELSE p[i]]

\* Line 437: where((pressure < 600) | (pressure > 1100), sys.maxint, pressure)
PlausiblePressure(p) ==
    [i \in 1..Len(p) |-> IF p[i] < 600 \/ p[i] > 1100 THEN MaxInt ELSE p[i]]

\* a.compress(a < sys.maxint)
BelowMaxInt(a) == take(a, where([i \in 1..Len(a) |-> a[i] < MaxInt]))

\* _rmax (lines 841-862): all, initial and non-initial radius series.
RmaxFiles(rmax, ind) ==
    [k \in {"all_rmax", "init_rmax", "rmax_no_init"} |->
        CASE k = "all_rmax" -> rmax
          [] k = "init_rmax" -> compress(rmax, ind)
          [] k = "rmax_no_init" -> BelowMaxInt(compressZero(rmax, ind))]

\* _rmaxRate (lines 882-895); g is rmaxChange[0], never assigned.
RmaxRate(rmax, dt_, ind, g) ==
    LET rmaxChange == WithGarbageHead(g, diffFloat(rmax), Len(ind))
        r0 == Quotient(rmaxChange, dt_)
        r1 == putmaskQ(r0, [i \in 1..Len(ind) |-> Truthy(ind[i])])
        r2 == MaskMissing(r1, rmax)
        r3 == putmaskQ(r2, [i \in 1..Len(ind) |-> Huge(r2[i])])
    IN  putmaskQ(r3, [i \in 1..Len(ind) |-> isnan(r3[i])])

\* Lines 429-462.  Without a vmax column the wind array is numpy.empty;
\* without an rmax column no radius series is written.
Convert ==
    /\ pc = "convert"
    /\ has_key(inputData, "pressure")
    /\ pressure' = PlausiblePressure(
                       ConvertKeepingSentinel(inputData["pressure"],
                                              inputPressureUnits))
    /\ IF has_key(inputData, "vmax")
       THEN vmax' = ConvertKeepingSentinel(inputData["vmax"], inputSpeedUnits)
       ELSE vmax' \in [1..Len(indicator) -> Garbage]
    /\ IF has_key(inputData, "rmax")
       THEN LET rmax == ConvertKeepingSentinel(inputData["rmax"],
                                               inputLengthUnits)
            IN  \E g \in Garbage :
                    written' = written @@ RmaxFiles(rmax, indicator) @@
                        ("rmax_rate" :> RmaxRate(rmax, dt, indicator, g))
       ELSE UNCHANGED written
    /\ pc' = "initindex"
    /\ UNCHANGED <<units, inputData, startSeason, exitStatus, indicator, year,
                   month, day, hour, minute, dt, jdays, lon, lat, initIndex>>

\* Line 429 without a pressure column: KeyError, uncaught.
ConvertCrash ==
    /\ pc = "convert"
    /\ ~has_key(inputData, "pressure")
    /\ pc' = "crashed"
    /\ exitStatus' = 1
    /\ UNCHANGED <<units, converted, inputData, startSeason, indicator, year,
                   month, day, hour, minute, dt, jdays, lon, lat, initIndex,
                   written>>

\* indicator2 = where(indicator > 0, 1, 0)
indicator2(ind) == [i \in 1..Len(ind) |-> IF ind[i] > 0 THEN 1 ELSE 0]

\* initIndex = concatenate([where(diff(indicator2) == -1, 1, 0), [0]])
InitIndexOf(ind) ==
    LET d == diff(indicator2(ind))
    IN  [i \in 1..Len(d) |-> IF d[i] = -1 THEN 1 ELSE 0] \o <<0>>

\* Lines 471-475.
ComputeInitIndex ==
    /\ pc = "initindex"
    /\ initIndex' = InitIndexOf(indicator)
    /\ pc' = "extract"
    /\ UNCHANGED <<units, converted, inputData, startSeason, exitStatus, indicator, year, month,
                   day, hour, minute, dt, jdays, lon, lat, written>>

(***************************************************************************)
(* Geometry Engine (maputils.latLon2Azi): bearing and distance of every    *)
(* two consecutive fixes.  Its contract is a compass bearing in 0..360 and *)
(* a distance in km; here the bearing is taken to the nearest octant and   *)
(* the distance on a 111 km per degree grid.                               *)
(***************************************************************************)
ISqrt(x) == CHOOSE k \in 0..x : k * k <= x /\ (k + 1) * (k + 1) > x

Azimuth(dlon, dlat) ==
    CASE dlon = 0 /\ dlat >= 0 -> 0
      [] dlon > 0 /\ dlat > 0 -> 45
      [] dlon > 0 /\ dlat = 0 -> 90
      [] dlon > 0 /\ dlat < 0 -> 135
      [] dlon = 0 /\ dlat < 0 -> 180
      [] dlon < 0 /\ dlat < 0 -> 225
      [] dlon < 0 /\ dlat = 0 -> 270
      [] dlon < 0 /\ dlat > 0 -> 315

Distance(dlon, dlat) == 111 * ISqrt(dlon * dlon + dlat * dlat)

\* bear_, dist_ = maputils.latLon2Azi(lat, lon, ieast, azimuth=0)
latLon2Azi(la, lo) ==
    [bear_ |-> [i \in 1..(Len(la) - 1) |->
                   Azimuth(lo[i + 1] - lo[i], la[i + 1] - la[i])],
     dist_ |-> [i \in 1..(Len(la) - 1) |->
                   Distance(lo[i + 1] - lo[i], la[i + 1] - la[i])]]

(***************************************************************************)
(* Quantity Extractor.                                                     *)
(***************************************************************************)
\* Mask of the track starts: the indicator as putmask reads it.
Starts(ind) == [i \in 1..Len(ind) |-> Truthy(ind[i])]

\* _lonLat (lines 535-567), without the land/sea flag of the raster.
LonLatFiles(lo, la, ind, initIdx) ==
    LET fix == [i \in 1..Len(lo) |-> <<lo[i], la[i]>>]
    IN  [k \in {"origin_lon_lat", "init_lon_lat", "all_lon_lat",
                "cyclone_tracks"} |->
            CASE k = "origin_lon_lat" -> compress(fix, ind)
              [] k = "init_lon_lat" -> compress(fix, initIdx)
              [] k = "all_lon_lat" -> fix
              [] k = "cyclone_tracks" ->
                    [i \in 1..Len(lo) |-> <<ind[i], lo[i], la[i]>>]]

\* Line 582: putmask(bear, indicator, sys.maxint), in place.
MaskedBearing(bear, ind) ==
    [i \in 1..Len(bear) |-> IF Truthy(ind[i]) THEN MaxInt ELSE bear[i]]

\* _bearing (lines 582-609); bear is the array after line 582.
BearingFiles(bear, ind, initIdx) ==
    [k \in {"all_bearing", "init_bearing", "bearing_no_init"} |->
        CASE k = "all_bearing" -> bear
          [] k = "init_bearing" -> take(bear, AfterInit(initIdx))
          [] k = "bearing_no_init" ->
                compressZero(bear, PutOnes(ind, AfterInit(initIdx)))]

\* Faulty variant of WrapBearing: the raw difference is kept.
WrapBearingRaw(c) == c

\* Lines 754-757: a difference above 180 loses 360, one below -180 gains it.
WrapBearing(c) ==
    IF Abs(c) = MaxInt THEN c
    ELSE IF c > 180 THEN c - 360
    ELSE IF c < -180 THEN c + 360
    ELSE c

\* _bearingRate (lines 753-766); g is bearingChange[0], never assigned.
BearingRate(bear, dt_, ind, g) ==
    LET raw == diffFloat(bear)
        bearingChange ==
            WithGarbageHead(g, [i \in 1..Len(raw) |-> WrapBearing(raw[i])],
                            Len(ind))
        r0 == Quotient(bearingChange, dt_)
        r1 == putmaskQ(r0, Starts(ind))
        r2 == putmaskQ(r1, Shifted(Starts(ind)))
        r3 == putmaskQ(r2, [i \in 1..Len(ind) |-> Huge(r2[i])])
    IN  putmaskQ(r3, [i \in 1..Len(ind) |-> isnan(r3[i])])

\* Lines 625-629: speed = dist/dt with its masks.
Speed(dist, dt_, ind) ==
    LET s0 == Quotient(dist, dt_)
        s1 == putmaskQ(s0, [i \in 1..Len(ind) |->
                               \/ Less(s0[i], 0)
                               \/ Greater(s0[i], 200)
                               \/ Truthy(ind[i])])
    IN  putmaskQ(s1, [i \in 1..Len(ind) |-> isnan(s1[i])])

\* _speed (lines 631-655).
SpeedFiles(speed, ind, initIdx) ==
    [k \in {"all_speed", "init_speed", "speed_no_init"} |->
        CASE k = "all_speed" -> speed
          [] k = "init_speed" -> take(speed, AfterInit(initIdx))
          [] k = "speed_no_init" ->
                compressZero(speed, PutOnes(ind, AfterInit(initIdx)))]

\* a - b of two quotients.
SubQ(a, b) ==
    IF isnan(a) \/ isnan(b) THEN <<0, 0>>
    ELSE IF isinf(a) /\ isinf(b)
         THEN (IF (a[1] > 0) = (b[1] > 0) THEN <<0, 0>> ELSE a)
    ELSE IF isinf(a) THEN a
    ELSE IF isinf(b) THEN <<-b[1], 0>>
    ELSE LET g == GCD(a[2], b[2])
         IN  Fraction(a[1] * (b[2] \div g) - b[1] * (a[2] \div g),
                      (a[2] \div g) * b[2])

\* q / dt for a quotient q and dt in minutes.
DivQ(q, t) ==
    LET g == GCD(Abs(60 * q[1]), Abs(t))
    IN  IF g = 0 THEN <<0, 0>>
        ELSE Fraction((60 * q[1]) \div g, q[2] * (t \div g))

\* _speedRate (lines 792-805); g is speedChange[0], never assigned.
SpeedRate(dist, dt_, ind, g) ==
    LET speed == Quotient(dist, dt_)
        speedChange ==
            WithGarbageHead(Fraction(g, 60),
                            [i \in 1..(Len(speed) - 1) |->
                                SubQ(speed[i + 1], speed[i])],
                            Len(ind))
        indicator_ == [i \in 1..Len(ind) |->
                          Less(speed[i], 0) \/ Greater(speed[i], 200)
                          \/ Truthy(ind[i])]
        r0 == [i \in 1..Len(ind) |-> DivQ(speedChange[i], dt_[i])]
        r1 == putmaskQ(r0, indicator_)
        r2 == putmaskQ(r1, Shifted(indicator_))
        r3 == putmaskQ(r2, [i \in 1..Len(ind) |-> Huge(r2[i])])
    IN  putmaskQ(r3, [i \in 1..Len(ind) |-> isnan(r3[i])])

\* _pressure (lines 670-693).
PressureFiles(p, ind) ==
    [k \in {"all_pressure", "init_pressure", "pressure_no_init"} |->
        CASE k = "all_pressure" -> p
          [] k = "init_pressure" -> compress(p, ind)
          [] k = "pressure_no_init" -> BelowMaxInt(compressZero(p, ind))]

\* Faulty variant of PressureRate: a missing pressure is not masked.
PressureRateUnmasked(p, dt_, ind, g) ==
    LET pressureChange == WithGarbageHead(g, diffFloat(p), Len(ind))
        r0 == Quotient(pressureChange, dt_)
        r1 == putmaskQ(r0, Starts(ind))
        r3 == putmaskQ(r1, [i \in 1..Len(ind) |-> isnan(r1[i])])
    IN  putmaskQ(r3, [i \in 1..Len(ind) |->
                         Greater(r3[i], 10) \/ Less(r3[i], -10)])

\* _pressureRate (lines 713-729); g is pressureChange[0], never assigned.
PressureRate(p, dt_, ind, g) ==
    LET pressureChange == WithGarbageHead(g, diffFloat(p), Len(ind))
        r0 == Quotient(pressureChange, dt_)
        r1 == putmaskQ(r0, Starts(ind))
        r2 == MaskMissing(r1, p)
        r3 == putmaskQ(r2, [i \in 1..Len(ind) |-> isnan(r2[i])])
    IN  putmaskQ(r3, [i \in 1..Len(ind) |->
                         Greater(r3[i], 10) \/ Less(r3[i], -10)])

\* _windSpeed (line 823): putmask(windSpeed, windSpeed > 200., sys.maxint)
WindSpeed(v) == [i \in 1..Len(v) |-> IF v[i] > 200 THEN MaxInt ELSE v[i]]

\* What element 0 of an array made by numpy.empty holds when the extractors
\* read it.  Where record 0 is a track start every extractor overwrites the
\* element with the sentinel before its value can show, so one value stands
\* for all of them there.
Unassigned(ind) ==
    IF Len(ind) = 0 \/ Truthy(ind[1]) THEN {0} ELSE Garbage

\* Lines 479-496: the geometry of consecutive fixes and every extractor in
\* the order of the code.  Element 0 of bear (gb), of dist (gd) and of the
\* change arrays is never assigned; bearingChange, speedChange and
\* pressureChange are made and dropped one after the other and show the
\* same leftover value gc.
Extract ==
    /\ pc = "extract"
    /\ \E gb \in Unassigned(indicator), gd \in Unassigned(indicator),
          gc \in Unassigned(indicator) :
        LET n == Len(indicator)
            azi == latLon2Azi(lat, lon)
            bear == MaskedBearing(WithGarbageHead(gb, azi.bear_, n), indicator)
            dist == WithGarbageHead(gd, azi.dist_, n)
        IN  written' = written
                @@ LonLatFiles(lon, lat, indicator, initIndex)
                @@ BearingFiles(bear, indicator, initIndex)
                @@ ("bearing_rate" :> BearingRate(bear, dt, indicator, gc))
                @@ SpeedFiles(Speed(dist, dt, indicator), indicator, initIndex)
                @@ ("speed_rate" :> SpeedRate(dist, dt, indicator, gc))
                @@ PressureFiles(pressure, indicator)
                @@ ("pressure_rate" :>
                        PressureRate(pressure, dt, indicator, gc))
                @@ ("wind_speed" :> WindSpeed(vmax))
    /\ pc' = "seasonality"
    /\ UNCHANGED <<units, converted, inputData, startSeason, exitStatus,
                   indicator, year, month, day, hour, minute, dt, jdays, lon,
                   lat, initIndex>>

(***************************************************************************)
(* Seasonality Analyzer.                                                   *)
(***************************************************************************)
\* The bin of numpy.histogram(a, arange(lo, hi + 1)) that counts the whole
\* number x: unit bins named by their left edge, the last one closed at hi.
BinOf(x, hi) == IF x = hi THEN hi - 1 ELSE x

\* numpy.histogram(a, arange(lo, hi + 1)) as bin -> count; values outside
\* lo..hi are dropped, and the bins that count nothing are left out.
histogram(a, lo, hi) ==
    LET counted == {i \in 1..Len(a) : a[i] >= lo /\ a[i] <= hi}
    IN  [b \in {BinOf(a[i], hi) : i \in counted} |->
            Cardinality({i \in counted : BinOf(a[i], hi) = b})]

\* Faulty variant of NormaliseJdays: no day is moved.
NormaliseJdaysNone(jd, years) == jd

\* Lines 925-927.
NormaliseJdays(jd, years) ==
    [i \in 1..Len(jd) |->
        IF years[i] % 4 = 0 /\ jd[i] >= 60 THEN jd[i] - 1 ELSE jd[i]]

\* Faulty variant of Frequency: the bins stop before the last year.
FrequencyShort(years, ind) ==
    LET minYr == CHOOSE y \in {years[i] : i \in 1..Len(years)} :
                     \A i \in 1..Len(years) : y <= years[i]
        maxYr == CHOOSE y \in {years[i] : i \in 1..Len(years)} :
                     \A i \in 1..Len(years) : y >= years[i]
    IN  IF minYr = maxYr THEN <<>>
        ELSE LET n == histogram(compress(years, ind), minYr, maxYr)
             IN  [b \in 1..(maxYr - minYr) |->
                     <<minYr + b - 1,
                       IF minYr + b - 1 \in DOMAIN n THEN n[minYr + b - 1]
                       ELSE 0>>]

\* _frequency (lines 906-916): the rows <<year, count>> written to the
\* frequency file, none when a single year is present.
Frequency(years, ind) ==
    LET minYr == CHOOSE y \in {years[i] : i \in 1..Len(years)} :
                     \A i \in 1..Len(years) : y <= years[i]
        maxYr == CHOOSE y \in {years[i] : i \in 1..Len(years)} :
                     \A i \in 1..Len(years) : y >= years[i]
    IN  IF minYr = maxYr THEN <<>>
        ELSE LET n == histogram(compress(years, ind), minYr, maxYr + 1)
             IN  [b \in 1..(maxYr + 1 - minYr) |->
                     <<minYr + b - 1,
                       IF minYr + b - 1 \in DOMAIN n THEN n[minYr + b - 1]
                       ELSE 0>>]

\* Lines 497-501 with a year or date column: _juliandays (lines 925-934).
\* The call of _frequency on line 500 is commented out.
JulianDays ==
    /\ pc = "seasonality"
    /\ has_key(inputData, "year") \/ has_key(inputData, "date")
    /\ YearBound(inputData)
    /\ jdays' = NormaliseJdays(jdays, year)
    /\ \E genesis \in {compress(jdays', indicator)} :
          written' = written
              @@ ("jday_genesis" :> histogram(genesis, 1, 366))
              @@ ("jday_observations" :> histogram(jdays', 1, 366))
              @@ ("jday" :> genesis)
    /\ pc' = "done"
    /\ UNCHANGED <<units, converted, inputData, startSeason, exitStatus,
                   indicator, year, month, day, hour, minute, dt, lon, lat,
                   initIndex>>

\* Line 497 with neither a year nor a date column.
JulianDaysSkip ==
    /\ pc = "seasonality"
    /\ ~(has_key(inputData, "year") \/ has_key(inputData, "date"))
    /\ pc' = "done"
    /\ UNCHANGED <<units, converted, inputData, startSeason, exitStatus,
                   indicator, year, month, day, hour, minute, dt, jdays, lon,
                   lat, initIndex, written>>

\* Line 501 after the age branch: jdays was never bound, NameError.
JulianDaysCrash ==
    /\ pc = "seasonality"
    /\ has_key(inputData, "year") \/ has_key(inputData, "date")
    /\ ~YearBound(inputData)
    /\ pc' = "crashed"
    /\ exitStatus' = 1
    /\ UNCHANGED <<units, converted, inputData, startSeason, indicator, year,
                   month, day, hour, minute, dt, jdays, lon, lat, initIndex,
                   written>>

(***************************************************************************)
(* Inputs.  Every input is a dict of equal-length columns; a family varies *)
(* the columns it is about and holds the others at one plain value.        *)
(***************************************************************************)
IndexValues == {0, 1}

SerialValues == {"A", "B"}

SeasonValues == {1980, 1981}

NumValues == {1, 2, 3}

AgeValues == {0, 6, 12}

\* Raw (lon, lat) fixes: -350 is 10 after normalisation.
Positions == {<<10, 0>>, <<30, 0>>, <<-350, 6>>}

\* Calendar records <<Y, M, D, h, m>>: two valid ones across a year
\* rollover, then month 13, year 0 and 29 February of a common year.
Stamps == {<<2000, 12, 31, 18, 0>>, <<2001, 1, 1, 0, 30>>,
           <<2000, 13, 1, 0, 0>>, <<0, 1, 1, 0, 0>>, <<2001, 2, 29, 6, 0>>}

\* Date strings: the calendar records as text, and a text that is no date.
DateStrings == Stamps \cup {<<>>}

\* The column groups that can delimit tracks, as the input may combine them.
IdProfiles == {{"index", "tcserialno"}, {"index", "season"},
               {"tcserialno", "season"}, {"tcserialno", "season", "num"},
               {"season", "num"}, {"num"}, {"season"}, {}}

\* The time representations of the input.
TimeProfiles == {{"age"}, {"date"}, {"year", "month", "day", "hour", "minute"},
                 {"year", "month", "day", "hour"}, {"month", "day", "hour"}}

\* Values of a column over n records: varied when the family is about it.
Choices(col, varied, n, values, plain) ==
    IF col \in varied THEN [1..n -> values] ELSE {[i \in 1..n |-> plain]}

Column(k, idx, ser, sea, num, age, pos, st) ==
    CASE k = "index" -> idx
      [] k = "tcserialno" -> ser
      [] k = "season" -> sea
      [] k = "num" -> num
      [] k = "age" -> age
      [] k = "lon" -> [i \in 1..Len(pos) |-> pos[i][1]]
      [] k = "lat" -> [i \in 1..Len(pos) |-> pos[i][2]]
      [] k = "date" -> st
      [] k = "year" -> [i \in 1..Len(st) |-> st[i][1]]
      [] k = "month" -> [i \in 1..Len(st) |-> st[i][2]]
      [] k = "day" -> [i \in 1..Len(st) |-> st[i][3]]
      [] k = "hour" -> [i \in 1..Len(st) |-> st[i][4]]
      [] k = "minute" -> [i \in 1..Len(st) |-> st[i][5]]

InitUnits(data, cutoff, pUnit, sUnit) ==
    /\ inputData = data
    /\ startSeason = cutoff
    /\ inputPressureUnits = pUnit
    /\ inputSpeedUnits = sUnit
    /\ inputLengthUnits = "km"
    /\ pressure = <<>> /\ vmax = <<>>
    /\ pc = "segment"
    /\ exitStatus = 0
    /\ indicator = <<>>
    /\ year = <<>> /\ month = <<>> /\ day = <<>> /\ hour = <<>>
    /\ minute = <<>>
    /\ dt = <<>> /\ jdays = <<>>
    /\ lon = <<>> /\ lat = <<>>
    /\ initIndex = <<>>
    /\ written = <<>>

\* Speeds in m/s, the default.
InitConfigured(data, cutoff, pUnit) == InitUnits(data, cutoff, pUnit, "mps")

\* The default units: hPa, m/s, km.
InitState(data, cutoff) == InitConfigured(data, cutoff, "hPa")

\* Plain values of the columns a family does not vary: fixes six hours
\* apart at one place, 980 hPa, 30 m/s.
PlainStamps(n) == [i \in 1..n |-> <<2000, 6, 1, 6 * (i - 1), 0>>]

PlainPositions(n) == [i \in 1..n |-> <<10, 0>>]

PlainQuantities(n) ==
    ("pressure" :> [i \in 1..n |-> 980]) @@ ("vmax" :> [i \in 1..n |-> 30])

\* Segmentation inputs: the identifying columns and the season cutoff vary.
InitSegmentation ==
    \E n \in 1..MaxLen, ids \in IdProfiles :
    \E idx \in Choices("index", ids, n, IndexValues, 1),
       ser \in Choices("tcserialno", ids, n, SerialValues, "A"),
       sea \in Choices("season", ids, n, SeasonValues, 1981),
       num \in Choices("num", ids, n,
                       IF "tcserialno" \in ids THEN {1, 2} ELSE NumValues, 1),
       cutoff \in (IF "season" \in ids THEN SeasonValues ELSE {1981}) :
        LET cols == ids \cup {"lon", "lat", "year", "month", "day", "hour"}
        IN  InitState([k \in cols |->
                          Column(k, idx, ser, sea, num, zeros(n),
                                 PlainPositions(n), PlainStamps(n))]
                      @@ PlainQuantities(n), cutoff)

\* Forced-split inputs: the positions vary under each kind of indicator.
InitSplit ==
    \E n \in 1..MaxLen, ids \in {{"index"}, {"num"}, {"tcserialno", "season"}} :
    \E idx \in Choices("index", ids, n, IndexValues, 1),
       ser \in Choices("tcserialno", ids, n, SerialValues, "A"),
       num \in Choices("num", ids, n, NumValues, 1),
       pos \in [1..n -> Positions] :
        LET cols == ids \cup {"lon", "lat", "year", "month", "day", "hour"}
        IN  InitState([k \in cols |->
                          Column(k, idx, ser, [i \in 1..n |-> 1981], num,
                                 zeros(n), pos, PlainStamps(n))]
                      @@ PlainQuantities(n), 1981)

\* Time inputs: the time representation and its values vary; the index
\* column varies where the dummy year reads it, the season where a season
\* column is present.
InitTime ==
    \E n \in 1..MaxLen, tp \in TimeProfiles,
       ids \in {{"index"}, {"tcserialno", "season"}} :
    \E idx \in Choices("index", IF "year" \in tp \/ "date" \in tp THEN {}
                                ELSE ids, n, IndexValues, 1),
       sea \in Choices("season", ids, n, SeasonValues, 1981),
       age \in Choices("age", tp, n, AgeValues, 0),
       st \in (IF "date" \in tp THEN [1..n -> DateStrings]
               ELSE IF "age" \in tp THEN {PlainStamps(n)}
               ELSE [1..n -> Stamps]) :
        LET cols == ids \cup tp \cup {"lon", "lat"}
        IN  InitState([k \in cols |->
                          Column(k, idx, [i \in 1..n |-> "A"], sea, ones(n),
                                 age, PlainPositions(n), st)]
                      @@ PlainQuantities(n), 1981)

\* Raw pressures: two plausible hPa readings, one plausible only as kPa,
\* and a missing one.
PressureValues == {975, 980, 98, MaxInt}

\* Raw radii of maximum wind, km, and a missing one.
RmaxValues == {40, 50, MaxInt}

\* Raw maximum winds, m/s: a plausible one, one beyond 200, a missing one.
VmaxValues == {30, 250, MaxInt}

\* Fixes one degree apart.
MotionPositions == {<<10, 0>>, <<11, 0>>, <<10, 1>>, <<11, 1>>}

\* One stream delimited by an index column, six-hourly calendar fields.
Stream(n, idx, pos) ==
    [k \in {"index", "lon", "lat", "year", "month", "day", "hour"} |->
        Column(k, idx, <<>>, <<>>, <<>>, <<>>, pos, PlainStamps(n))]

\* The index columns whose first record opens a track.
WellFormed(n) == {idx \in [1..n -> IndexValues] : idx[1] = 1}

\* Pressure inputs: the pressures, their unit and the index vary.
InitPressure ==
    \E n \in 1..MaxLen, pUnit \in {"hPa", "kPa"} :
    \E idx \in WellFormed(n), p \in [1..n -> PressureValues] :
        InitConfigured(Stream(n, idx, PlainPositions(n))
                       @@ ("pressure" :> p) @@ PlainQuantities(n),
                       1981, pUnit)

\* Radius inputs: an rmax column and the index vary.
InitRadius ==
    \E n \in 1..MaxLen :
    \E idx \in WellFormed(n), r \in [1..n -> RmaxValues] :
        InitState(Stream(n, idx, PlainPositions(n))
                  @@ ("rmax" :> r) @@ PlainQuantities(n), 1981)

\* Wind inputs: the vmax column varies or is absent.
InitWind ==
    \E n \in 1..MaxLen :
        \/ \E v \in [1..n -> VmaxValues] :
               InitState(Stream(n, ones(n), PlainPositions(n))
                         @@ ("vmax" :> v) @@ PlainQuantities(n), 1981)
        \/ InitState(Stream(n, ones(n), PlainPositions(n))
                     @@ ("pressure" :> [i \in 1..n |-> 980]), 1981)

\* Motion inputs: nearby fixes and the index vary.
InitMotion ==
    \E n \in 1..MaxLen :
    \E idx \in [1..n -> IndexValues], pos \in [1..n -> MotionPositions] :
        InitState(Stream(n, idx, pos) @@ PlainQuantities(n), 1981)

\* Inputs that lack what a later stage reads: no pressure column, or a
\* year column beside the age column.
InitLacking ==
    \E n \in 1..MaxLen :
        \/ InitState(Stream(n, ones(n), PlainPositions(n))
                     @@ ("vmax" :> [i \in 1..n |-> 30]), 1981)
        \/ \E age \in [1..n -> AgeValues] :
               InitState(Stream(n, ones(n), PlainPositions(n))
                         @@ ("age" :> age)
                         @@ ("season" :> [i \in 1..n |-> 1981])
                         @@ PlainQuantities(n), 1981)

\* Times of day <<hour, minute>>: half an hour and six hours apart.
Clock == {<<0, 0>>, <<0, 30>>, <<6, 0>>}

\* Fixes on one parallel, one degree apart.
PacePositions == {<<10, 0>>, <<11, 0>>}

\* Pressures, hPa, 5 to 20 hPa apart.
TendencyValues == {980, 975, 960}

\* One stream delimited by an index column whose records fall on one day
\* at the times of day ck, some of them equal or out of order.
Paced(n, idx, pos, ck) ==
    [k \in {"index", "lon", "lat", "year", "month", "day", "hour", "minute"} |->
        Column(k, idx, <<>>, <<>>, <<>>, <<>>, pos,
               [i \in 1..n |-> <<2000, 6, 1, ck[i][1], ck[i][2]>>])]

\* Pace inputs: the elapsed time (zero, negative, half an hour, six hours)
\* and the fixes vary, so that speeds outside 0..200 km/h occur.
InitPace ==
    \E n \in 1..MaxLen :
    \E idx \in WellFormed(n), pos \in [1..n -> PacePositions],
       ck \in [1..n -> Clock] :
        InitState(Paced(n, idx, pos, ck) @@ PlainQuantities(n), 1981)

\* Tendency inputs: the elapsed time and the pressures of one track vary.
InitTendency ==
    \E n \in 1..MaxLen :
    \E p \in [1..n -> TendencyValues], ck \in [1..n -> Clock] :
        InitState(Paced(n, [i \in 1..n |-> IF i = 1 THEN 1 ELSE 0],
                        PlainPositions(n), ck)
                  @@ ("pressure" :> p) @@ PlainQuantities(n), 1981)

\* Raw maximum winds: the missing-value codes of the sources and a wind.
WindCodes == {0, -999, 9999, 30}

\* Wind-code inputs: the vmax column holds missing-value codes, in m/s or
\* in km/h.
InitWindCodes ==
    \E n \in 1..MaxLen, sUnit \in {"mps", "kmh"} :
    \E v \in [1..n -> WindCodes] :
        InitUnits(Stream(n, ones(n), PlainPositions(n))
                  @@ ("vmax" :> v) @@ PlainQuantities(n), 1981, "hPa", sUnit)

Init ==
    \/ InitWindCodes
    \/ InitPace
    \/ InitTendency
    \/ InitSegmentation
    \/ InitSplit
    \/ InitTime
    \/ InitPressure
    \/ InitRadius
    \/ InitWind
    \/ InitMotion
    \/ InitLacking

Next ==
    \/ Segment
    \/ SegmentFail
    \/ ResolveAge
    \/ ParseDates
    \/ ParseDatesCrash
    \/ CalendarFields
    \/ CalendarFieldsCrash
    \/ SeasonFilter
    \/ ConstructDates
    \/ ConstructDatesFail
    \/ ForcedSplit
    \/ SaveOrigin
    \/ SaveOriginCrash
    \/ Convert
    \/ ConvertCrash
    \/ ComputeInitIndex
    \/ Extract
    \/ JulianDays
    \/ JulianDaysSkip
    \/ JulianDaysCrash

Spec == Init /\ [][Next]_vars

(***************************************************************************)
(* Properties.                                                             *)
(***************************************************************************)
\* The forced split has been applied: the indicator is final.
AfterSplit ==
    pc \in {"origin", "convert", "initindex", "extract", "seasonality", "done"}

\* The primary strategy has just run: the indicator is the primary one and
\* inputData still holds every record.
AfterSegment == pc = "time"

UsesIndex == has_key(inputData, "index")

UsesSerial == ~has_key(inputData, "index") /\ has_key(inputData, "tcserialno")

UsesSeasonNum ==
    /\ ~has_key(inputData, "index") /\ ~has_key(inputData, "tcserialno")
    /\ has_key(inputData, "season") /\ has_key(inputData, "num")

UsesNumOnly ==
    /\ ~has_key(inputData, "index") /\ ~has_key(inputData, "tcserialno")
    /\ ~has_key(inputData, "season") /\ has_key(inputData, "num")

NoTrackColumns ==
    /\ ~has_key(inputData, "index") /\ ~has_key(inputData, "tcserialno")
    /\ ~has_key(inputData, "num")

\* C1: in the final indicator, every position i >= 1 whose longitude differs
\* from the previous one by more than 15 degrees in absolute value (after
\* normalisation), or whose latitude differs by more than 5 degrees in
\* absolute value, holds 1.
C1_ForcedSplit ==
    AfterSplit =>
        \A i \in 2..Len(indicator) :
            (Abs(lon[i] - lon[i - 1]) > 15 \/ Abs(lat[i] - lat[i - 1]) > 5)
                => indicator[i] = 1

\* C2: when the run reaches the quantity extractors, the first observation
\* of the working dataset is a track start.
C2_FirstIsStart ==
    (pc = "extract" /\ Len(indicator) > 0) => indicator[1] = 1

\* C3: initIndex[i] = 1 exactly when indicator[i] = 1 and the next position
\* exists and holds indicator 0; the last position is never flagged.
C3_InitIndex ==
    (pc = "extract" /\ Len(indicator) > 0) =>
        /\ Len(initIndex) = Len(indicator)
        /\ initIndex[Len(initIndex)] = 0
        /\ \A i \in 1..Len(indicator) :
              initIndex[i] = 1 <=>
                  (i < Len(indicator) /\ indicator[i] = 1
                      /\ indicator[i + 1] = 0)

\* C4: after the primary strategy and the forced split every element of the
\* indicator is exactly 0 or 1.
C4_Boolean ==
    AfterSplit => \A i \in 1..Len(indicator) : indicator[i] \in {0, 1}

\* C5: the primary strategy is the first applicable of index, serial,
\* (season, number), number-only, used alone; with an index column the
\* primary indicator is that column verbatim, whatever the serial numbers.
C5_Priority ==
    AfterSegment =>
        /\ UsesIndex => indicator = inputData["index"]
        /\ UsesSerial =>
              \A i \in 2..Len(indicator) :
                  indicator[i] = 0 <=>
                      inputData["tcserialno"][i] = inputData["tcserialno"][i - 1]
        /\ UsesSeasonNum =>
              \A i \in 2..Len(indicator) :
                  indicator[i] = 0 <=>
                      /\ inputData["season"][i] = inputData["season"][i - 1]
                      /\ inputData["num"][i] = inputData["num"][i - 1]
        /\ UsesNumOnly =>
              \A i \in 2..Len(indicator) :
                  indicator[i] = 1 <=>
                      inputData["num"][i] > inputData["num"][i - 1]

\* An index column and a serial column that disagree on a track start.
C5_Witness ==
    /\ AfterSegment /\ UsesIndex /\ has_key(inputData, "tcserialno")
    /\ \E i \in 2..Len(indicator) :
          /\ indicator[i] = 1
          /\ inputData["tcserialno"][i] = inputData["tcserialno"][i - 1]
    /\ \E i \in 2..Len(indicator) :
          /\ indicator[i] = 0
          /\ inputData["tcserialno"][i] # inputData["tcserialno"][i - 1]

\* Serial numbers and (season, number) pairs change at the same records.
KeysAgree ==
    \A i \in 2..Len(inputData["tcserialno"]) :
        (inputData["tcserialno"][i] = inputData["tcserialno"][i - 1]) <=>
            /\ inputData["season"][i] = inputData["season"][i - 1]
            /\ inputData["num"][i] = inputData["num"][i - 1]

\* C6: under the serial strategy indicator[0] = 1 and indicator[i] = 0 iff
\* the serial number repeats; under the (season, number) strategy
\* indicator[i] = 0 iff season and number both repeat; when both keys
\* identify the same storms the two strategies give the same indicator.
C6_KeyEquality ==
    AfterSegment =>
        /\ UsesSerial =>
              /\ Len(indicator) = Len(inputData["tcserialno"])
              /\ indicator[1] = 1
              /\ \A i \in 2..Len(indicator) :
                    /\ indicator[i] \in {0, 1}
                    /\ indicator[i] = 0 <=>
                          inputData["tcserialno"][i]
                              = inputData["tcserialno"][i - 1]
        /\ UsesSeasonNum =>
              /\ Len(indicator) = Len(inputData["num"])
              /\ indicator[1] = 1
              /\ \A i \in 2..Len(indicator) :
                    /\ indicator[i] \in {0, 1}
                    /\ indicator[i] = 0 <=>
                          /\ inputData["season"][i] = inputData["season"][i - 1]
                          /\ inputData["num"][i] = inputData["num"][i - 1]
        /\ (UsesSerial /\ has_key(inputData, "season")
                /\ has_key(inputData, "num") /\ KeysAgree) =>
              indicator = SeasonNumIndicator(inputData["season"],
                                             inputData["num"])

\* A serial column whose number returns to an earlier storm's: a repeat that
\* is found only by comparing with the previous record.
C6_Witness ==
    /\ AfterSegment /\ UsesSerial /\ Len(indicator) = 3
    /\ inputData["tcserialno"][1] = inputData["tcserialno"][3]
    /\ inputData["tcserialno"][1] # inputData["tcserialno"][2]
    /\ indicator = <<1, 1, 1>>

\* C7: under the number-only strategy indicator[i] = 1 iff the number
\* increased, and any non-increase gives indicator[i] = 0.
C7_NumberOnly ==
    (AfterSegment /\ UsesNumOnly) =>
        \A i \in 2..Len(indicator) :
            /\ indicator[i] = 1 <=> inputData["num"][i] > inputData["num"][i - 1]
            /\ inputData["num"][i] <= inputData["num"][i - 1]
                  => indicator[i] = 0

\* C8: without any of index, tcserialno, (season, num), num the run fails
\* with status 2 at segmentation: no indicator, no time array, no output.
C8_NoTrackColumns ==
    NoTrackColumns =>
        /\ pc \in {"segment", "failed"}
        /\ pc = "failed" => exitStatus = 2
        /\ indicator = <<>> /\ initIndex = <<>>
        /\ year = <<>> /\ dt = <<>> /\ jdays = <<>>
        /\ written = <<>>

\* The run has failed for want of track-delimiting columns.
C8_Witness ==
    /\ NoTrackColumns /\ pc = "failed" /\ exitStatus = 2
    /\ ~has_key(inputData, "season")

\* C9: when a date string at any position fails to parse, the run stops at
\* that record: it never gets past the parsing of dates.
C9_BadDateFatal ==
    (/\ ~has_key(inputData, "age") /\ has_key(inputData, "date")
     /\ \E i \in 1..Len(inputData["date"]) : ~strptimeOK(inputData["date"][i]))
        => /\ pc \in {"segment", "time", "failed", "crashed"}
           /\ year = <<>>
           /\ written = <<>>

\* Record i of the calendar arrays forms a date-time.
Constructible(i) ==
    /\ year[i] >= 1 /\ year[i] <= 9999
    /\ month[i] \in 1..12
    /\ day[i] >= 1 /\ day[i] <= DaysInMonth(year[i], month[i])
    /\ hour[i] \in 0..23
    /\ minute[i] \in 0..59

\* The construction of the date-times has been attempted.
ConstructionDone ==
    /\ ~has_key(inputData, "age") /\ ~NoTrackColumns
    /\ pc \in {"split", "origin", "convert", "initindex", "extract",
              "seasonality", "done", "failed"}

\* C10: when a record's calendar fields form no valid date-time the
\* construction fails and the run aborts with status 2; dt and jdays are
\* computed for all records or for none.
C10_InvalidCalendar ==
    ConstructionDone =>
        IF \A i \in 1..Len(year) : Constructible(i)
        THEN /\ pc # "failed"
             /\ Len(dt) = Len(year) /\ Len(jdays) = Len(year)
        ELSE /\ pc = "failed" /\ exitStatus = 2
             /\ dt = <<>> /\ jdays = <<>>
             /\ written = <<>>

\* The construction failed on a record that follows a valid one.
C10_Witness ==
    /\ ConstructionDone /\ pc = "failed" /\ Len(year) >= 2
    /\ Constructible(1)
    /\ \E i \in 2..Len(year) : month[i] = 13
    /\ dt = <<>> /\ jdays = <<>>

(***************************************************************************)
(* Properties of the quantity extractor.                                   *)
(***************************************************************************)
\* The extractors have run: every series but the julian days is written.
Extracted == pc \in {"seasonality", "done"}

\* C11: after conversion and filtering, a record whose pressure is the
\* sentinel has the sentinel as its pressure rate; the rule that does this
\* changes the rate of no record whose own pressure is present, the next
\* record included.
C11_CurrentSentinel ==
    Extracted =>
        /\ \A i \in 1..Len(pressure) :
               pressure[i] = MaxInt =>
                   written["pressure_rate"][i] = SentinelQ
        /\ LET raw == Quotient(WithGarbageHead(0, diffFloat(pressure),
                                               Len(pressure)), dt)
           IN  \A i \in 1..Len(pressure) :
                   pressure[i] # MaxInt =>
                       MaskMissing(raw, pressure)[i] = raw[i]

\* A record that is no track start, with a missing pressure after another
\* missing pressure: a zero change that only this rule masks.
C11_Witness ==
    /\ Extracted
    /\ \E i \in 2..Len(pressure) :
           /\ pressure[i] = MaxInt /\ pressure[i - 1] = MaxInt
           /\ indicator[i] = 0
           /\ i < Len(pressure) /\ pressure[i + 1] # MaxInt
           /\ written["pressure_rate"][i] = SentinelQ

\* C12: in the pressure-rate and the rmax-rate series, a record whose
\* predecessor holds the sentinel has the sentinel as its rate, also when
\* its own value is present and it starts no track.
C12_PriorSentinel ==
    Extracted =>
        /\ \A i \in 2..Len(pressure) :
               pressure[i - 1] = MaxInt =>
                   written["pressure_rate"][i] = SentinelQ
        /\ has_key(inputData, "rmax") =>
               \A i \in 2..Len(written["all_rmax"]) :
                   written["all_rmax"][i - 1] = MaxInt =>
                       written["rmax_rate"][i] = SentinelQ

\* The wrapped bearing difference behind an unmasked bearing rate:
\* rate * dt.
WrappedAt(i) ==
    (written["bearing_rate"][i][1] * dt[i]) \div written["bearing_rate"][i][2]

\* Bearings around the compass, the ends of the scale included.
BearingSamples == {0, 10, 170, 180, 190, 350, 360}

\* C13: the bearing difference of two consecutive records is the raw
\* difference less 360 when above 180 and plus 360 when below -180: it lies
\* in -180..180 and is congruent to the raw difference modulo 360; from
\* 350 to 10 it is +20.
C13_BearingWrap ==
    Extracted =>
        /\ \A i \in 2..Len(indicator) :
               written["bearing_rate"][i] # SentinelQ =>
                   LET raw == written["all_bearing"][i]
                                  - written["all_bearing"][i - 1]
                   IN  /\ WrappedAt(i) >= -180 /\ WrappedAt(i) <= 180
                       /\ (WrappedAt(i) - raw) % 360 = 0
                       /\ raw > 180 => WrappedAt(i) = raw - 360
                       /\ raw < -180 => WrappedAt(i) = raw + 360
        /\ \A a \in BearingSamples, b \in BearingSamples :
               /\ WrapBearing(b - a) >= -180 /\ WrapBearing(b - a) <= 180
               /\ (WrapBearing(b - a) - (b - a)) % 360 = 0
        /\ WrapBearing(10 - 350) = 20

\* An unmasked bearing rate whose raw difference lies outside -180..180.
C13_Witness ==
    /\ Extracted
    /\ \E i \in 2..Len(indicator) :
           /\ written["bearing_rate"][i] # SentinelQ
           /\ written["all_bearing"][i] - written["all_bearing"][i - 1] < -180
           /\ WrappedAt(i) > 0

\* The quotient q is a speed within 0..200 km/h.
InSpeedRange(q) == q[2] > 0 /\ q[1] >= 0 /\ 60 * q[1] <= 200 * q[2]

\* C14: every element of the all-pressure series is the sentinel or lies
\* in 600..1100 hPa, every element of the all-speed series is the sentinel
\* or lies in 0..200 km/h, and an input pressure equal to the sentinel is
\* the sentinel in the output under every input pressure unit.
C14_Plausible ==
    Extracted =>
        \A i \in 1..Len(indicator) :
            /\ \/ written["all_pressure"][i] = MaxInt
               \/ written["all_pressure"][i] \in 600..1100
            /\ \/ written["all_speed"][i] = SentinelQ
               \/ InSpeedRange(written["all_speed"][i])
            /\ inputData["pressure"][i] = MaxInt =>
                   written["all_pressure"][i] = MaxInt

\* Pressures given in kPa: a missing one kept, a plausible one converted,
\* one beyond 1100 hPa removed, beside a speed that is not masked.
C14_Witness ==
    /\ Extracted /\ inputPressureUnits = "kPa"
    /\ \E i, j, k \in 1..Len(indicator) :
           /\ inputData["pressure"][i] = MaxInt
           /\ written["all_pressure"][i] = MaxInt
           /\ inputData["pressure"][j] = 98
           /\ written["all_pressure"][j] = 980
           /\ inputData["pressure"][k] = 975
           /\ written["all_pressure"][k] = MaxInt
           /\ written["all_speed"][j] # SentinelQ

\* The season filter is behind: the time resolver has finished.
AfterFilter ==
    pc \in {"split", "origin", "convert", "initindex", "extract",
            "seasonality", "done"}

\* C15: with a season column in the input, every record whose season is
\* below the cutoff has been removed from every column and from the
\* indicator before the forced split, under every time representation
\* (age, date string, calendar fields), and all arrays have one length.
C15_SeasonCutoff ==
    (AfterFilter /\ has_key(inputData, "season")) =>
        /\ \A i \in 1..Len(inputData["season"]) :
               inputData["season"][i] >= startSeason
        /\ \A k \in DOMAIN inputData : Len(inputData[k]) = Len(indicator)

\* C16: without a minute column the minutes are all zero, one per record;
\* without a vmax or an rmax column the run goes on, and the max-wind
\* series handed to the output holds only the sentinel or zero.
C16_OptionalColumns ==
    /\ (/\ AfterFilter /\ ~has_key(inputData, "minute")
        /\ ~has_key(inputData, "age") /\ ~has_key(inputData, "date")) =>
           /\ Len(minute) = Len(indicator)
           /\ \A i \in 1..Len(minute) : minute[i] = 0
    /\ (pc = "initindex"
            /\ ~(has_key(inputData, "vmax") /\ has_key(inputData, "rmax"))) =>
           exitStatus = 0
    /\ (Extracted /\ ~has_key(inputData, "vmax")) =>
           \A i \in 1..Len(indicator) :
               written["wind_speed"][i] \in {MaxInt, 0}

\* C17: in the all-bearing and the all-speed series every track start,
\* record 0 of the dataset included, holds the sentinel; every other
\* record with a positive elapsed time and a speed within 0..200 km/h
\* holds the bearing and the speed of the pair it ends.
C17_StartSentinel ==
    Extracted =>
        LET azi == latLon2Azi(lat, lon)
        IN  /\ Len(indicator) > 0 =>
                   /\ written["all_bearing"][1] = MaxInt
                   /\ written["all_speed"][1] = SentinelQ
            /\ \A i \in 1..Len(indicator) :
                   Truthy(indicator[i]) =>
                       /\ written["all_bearing"][i] = MaxInt
                       /\ written["all_speed"][i] = SentinelQ
            /\ \A i \in 2..Len(indicator) :
                   (/\ ~Truthy(indicator[i]) /\ dt[i] > 0
                    /\ InSpeedRange(Fraction(azi.dist_[i - 1], dt[i]))) =>
                       /\ written["all_bearing"][i] = azi.bear_[i - 1]
                       /\ written["all_speed"][i]
                              = Fraction(azi.dist_[i - 1], dt[i])

\* The calendar branch has built the date-times and dt.
AfterConstruct == AfterFilter /\ ~has_key(inputData, "age")

YearLength(y) == IF IsLeap(y) THEN 366 ELSE 365

\* Days from 1 January of year y0 to 1 January of year y >= y0.
RECURSIVE DaysToYear(_, _)
DaysToYear(y0, y) ==
    IF y <= y0 THEN 0 ELSE YearLength(y - 1) + DaysToYear(y0, y - 1)

\* Minutes from the start of its year to record i.
MinuteOfYear(i) ==
    ((DayOfYear(year[i], month[i], day[i]) - 1) * 24 + hour[i]) * 60
        + minute[i]

\* Minutes from record i - 1 to record i, counted year by year.
Elapsed(i) ==
    LET y0 == IF year[i] < year[i - 1] THEN year[i] ELSE year[i - 1]
    IN  (DaysToYear(y0, year[i]) - DaysToYear(y0, year[i - 1])) * 1440
            + MinuteOfYear(i) - MinuteOfYear(i - 1)

\* C18: for date-string and calendar-field input the elapsed time of every
\* record after the first is the difference between its full date-time and
\* that of the record before: 31 December 18:00 to 1 January 00:00 of the
\* next year is 6 hours.
C18_CalendarElapsed ==
    AfterConstruct =>
        /\ Len(dt) = Len(year)
        /\ \A i \in 2..Len(year) : dt[i] = Elapsed(i)

\* 31 December 18:00 followed by 1 January 00:00 of the next year.
C18_Witness ==
    /\ AfterConstruct
    /\ \E i \in 2..Len(year) :
           /\ month[i - 1] = 12 /\ day[i - 1] = 31 /\ hour[i - 1] = 18
           /\ minute[i - 1] = 0
           /\ year[i] = year[i - 1] + 1
           /\ month[i] = 1 /\ day[i] = 1 /\ hour[i] = 0 /\ minute[i] = 0
           /\ dt[i] = 360

\* The counts of a histogram added up.
RECURSIVE SumOver(_, _)
SumOver(h, bins) ==
    IF bins = {} THEN 0
    ELSE LET b == CHOOSE x \in bins : TRUE
         IN  h[b] + SumOver(h, bins \ {b})

Total(h) == SumOver(h, DOMAIN h)

\* The number of track starts.
Tracks == Cardinality({i \in 1..Len(indicator) : Truthy(indicator[i])})

\* _juliandays has run.
JulianDone ==
    pc = "done" /\ (has_key(inputData, "year") \/ has_key(inputData, "date"))

\* C19: the julian day of a record whose year is divisible by 4 and whose
\* day of the year is 60 or more is one less than its day of the year, that
\* of every other record is its day of the year; every julian day then
\* lies in 1..365, and the genesis and the all-observation histograms over
\* the day bins 1..366 count every track start and every record once.
C19_JulianDays ==
    JulianDone =>
        /\ \A i \in 1..Len(jdays) :
               LET doy == DayOfYear(year[i], month[i], day[i])
               IN  /\ jdays[i] = IF year[i] % 4 = 0 /\ doy >= 60
                                 THEN doy - 1 ELSE doy
                   /\ jdays[i] \in 1..365
                   /\ written["jday_observations"][jdays[i]]
                          = Cardinality({j \in 1..Len(jdays) :
                                            jdays[j] = jdays[i]})
                   /\ Truthy(indicator[i]) =>
                          written["jday_genesis"][jdays[i]]
                              = Cardinality({j \in 1..Len(jdays) :
                                                /\ Truthy(indicator[j])
                                                /\ jdays[j] = jdays[i]})
        /\ Total(written["jday_observations"]) = Len(jdays)
        /\ Total(written["jday_genesis"]) = Tracks
        /\ DOMAIN written["jday_observations"] \subseteq 1..365

\* 31 December of a leap year counted as day 365 beside a day of a common
\* year that keeps its number.
C19_Witness ==
    /\ JulianDone
    /\ \E i, j \in 1..Len(jdays) :
           /\ year[i] % 4 = 0
           /\ DayOfYear(year[i], month[i], day[i]) = 366 /\ jdays[i] = 365
           /\ year[j] % 4 # 0
           /\ jdays[j] = DayOfYear(year[j], month[j], day[j])
           /\ Truthy(indicator[i])

\* The years of the records are not all the same.
TwoYears == \E i, j \in 1..Len(year) : year[i] # year[j]

\* C20 as stated: a completed run on data of two or more distinct years
\* has written the genesis-frequency histogram, the track-start years
\* counted in one-year bins from the first to the last observed year.
C20_FrequencyWritten ==
    (JulianDone /\ TwoYears) =>
        /\ "frequency" \in DOMAIN written
        /\ written["frequency"] = Frequency(year, indicator)

\* C20 amended: _frequency counts the track-start years in one-year bins
\* from the first to the last observed year, so that the counts add up to
\* the number of tracks, and gives no histogram for a single year (it is
\* defined for one record or more); a completed run does not call it and
\* writes no frequency histogram.
C20_FrequencyFunction ==
    /\ JulianDone => "frequency" \notin DOMAIN written
    /\ (JulianDone /\ Len(year) > 0) =>
              LET rows == Frequency(year, indicator)
                  years == {year[i] : i \in 1..Len(year)}
              IN  IF TwoYears
                  THEN /\ \A b \in 1..Len(rows) :
                              /\ rows[b][1] = rows[1][1] + b - 1
                              /\ rows[b][2] =
                                     Cardinality({i \in 1..Len(year) :
                                                     /\ Truthy(indicator[i])
                                                     /\ year[i] = rows[b][1]})
                       /\ \A y \in years : \E b \in 1..Len(rows) :
                              rows[b][1] = y
                       /\ rows[1][1] \in years
                       /\ rows[Len(rows)][1] \in years
                       /\ SumOver([b \in 1..Len(rows) |-> rows[b][2]],
                                  1..Len(rows)) = Tracks
                  ELSE rows = <<>>
    /\ Frequency(<<2000, 2000, 2001, 2001, 2001>>, <<1, 0, 1, 0, 0>>)
           = <<(<<2000, 1>>), (<<2001, 1>>)>>

\* A completed run over two distinct years, both starting a track, with
\* no frequency histogram among its outputs.
C20_Witness ==
    /\ JulianDone /\ TwoYears
    /\ "frequency" \notin DOMAIN written
    /\ Len(Frequency(year, indicator)) = 2
    /\ Frequency(year, indicator)[1][2] >= 1
    /\ Frequency(year, indicator)[2][2] >= 1

(***************************************************************************)
(* Properties of the rates, the partitions and the run as a whole.         *)
(***************************************************************************)
\* Record i starts a track.
IsStart(i) == Truthy(indicator[i])

\* The speed of the motion that ends at record i >= 2 lies outside
\* 0..200 km/h (a motion over no elapsed time has no speed within it).
SpeedOutOfRange(i) ==
    /\ i >= 2
    /\ ~InSpeedRange(Fraction(latLon2Azi(lat, lon).dist_[i - 1], dt[i]))

\* C21: the bearing rate of a record is the sentinel when the record or the
\* one before starts a track; the speed rate is the sentinel when the
\* record or the one before starts a track or has a speed outside
\* 0..200 km/h; hence a rate that is not the sentinel belongs to a record
\* that has two records before it in its track.
C21_RateMasking ==
    Extracted =>
        /\ \A i \in 1..Len(indicator) :
               (IsStart(i) \/ (i > 1 /\ IsStart(i - 1))) =>
                   written["bearing_rate"][i] = SentinelQ
        /\ \A i \in 1..Len(indicator) :
               (\/ IsStart(i) \/ SpeedOutOfRange(i)
                \/ (i > 1 /\ (IsStart(i - 1) \/ SpeedOutOfRange(i - 1)))) =>
                   written["speed_rate"][i] = SentinelQ
        /\ \A i \in 1..Len(indicator) :
               (\/ written["bearing_rate"][i] # SentinelQ
                \/ written["speed_rate"][i] # SentinelQ) =>
                   /\ i >= 3
                   /\ ~IsStart(i) /\ ~IsStart(i - 1)

\* The quotient q is finite and of magnitude at most c per hour.
WithinBound(q, c) == q[2] > 0 /\ 60 * Abs(q[1]) <= c * q[2]

\* C22: every element of the pressure-rate series is the sentinel or a
\* finite value of magnitude at most 10 hPa/h; a change over a zero elapsed
\* time (0/0 included) is the sentinel, and the rate of two present
\* pressures inside one track that lies within the bound is kept as it is
\* (980 then 975 six hours apart give -5/6 hPa/h).
C22_PressureRateBound ==
    Extracted =>
        /\ \A i \in 1..Len(pressure) :
               \/ written["pressure_rate"][i] = SentinelQ
               \/ WithinBound(written["pressure_rate"][i], 10)
        /\ \A i \in 2..Len(pressure) :
               dt[i] = 0 => written["pressure_rate"][i] = SentinelQ
        /\ \A i \in 2..Len(pressure) :
               (/\ ~IsStart(i) /\ dt[i] # 0
                /\ pressure[i] # MaxInt /\ pressure[i - 1] # MaxInt
                /\ WithinBound(Fraction(Abs(pressure[i] - pressure[i - 1]),
                                        Abs(dt[i])), 10)) =>
                   written["pressure_rate"][i]
                       = Fraction(pressure[i] - pressure[i - 1], dt[i])

\* One track: no change over no elapsed time, masked, then 980 to 975 hPa
\* in six hours, kept as -5/6 hPa/h.
C22_Witness ==
    /\ Extracted /\ Len(pressure) = 3
    /\ ~IsStart(2) /\ ~IsStart(3)
    /\ dt[2] = 0 /\ pressure[2] = pressure[1]
    /\ written["pressure_rate"][2] = SentinelQ
    /\ pressure[2] = 980 /\ pressure[3] = 975 /\ dt[3] = 360
    /\ written["pressure_rate"][3] = <<-1, 72>>

\* The track starts, ascending.
StartPositions == where([i \in 1..Len(indicator) |-> IsStart(i)])

\* The starts of the tracks of two records or more, ascending.
NonSingletonStarts ==
    where([i \in 1..Len(indicator) |->
              IsStart(i) /\ i < Len(indicator) /\ ~IsStart(i + 1)])

\* C23: the initial pressure and rmax series hold the value at every track
\* start, one per track, singleton tracks included; the initial bearing and
\* speed series hold, for every track of two records or more and for no
\* other, the motion that ends at the record after its start; the
\* non-initial pressure and rmax series hold no sentinel.
C23_Partitions ==
    Extracted =>
        /\ written["init_pressure"] = take(pressure, StartPositions)
        /\ Len(written["init_pressure"]) = Tracks
        /\ has_key(inputData, "rmax") =>
               /\ written["init_rmax"]
                      = take(written["all_rmax"], StartPositions)
               /\ \A k \in 1..Len(written["rmax_no_init"]) :
                      written["rmax_no_init"][k] # MaxInt
        /\ written["init_bearing"]
               = [k \in 1..Len(NonSingletonStarts) |->
                     written["all_bearing"][NonSingletonStarts[k] + 1]]
        /\ written["init_speed"]
               = [k \in 1..Len(NonSingletonStarts) |->
                     written["all_speed"][NonSingletonStarts[k] + 1]]
        /\ \A k \in 1..Len(written["pressure_no_init"]) :
               written["pressure_no_init"][k] # MaxInt

\* The series every completed run writes.
DerivedSeries ==
    {"origin_year", "origin_lon_lat", "init_lon_lat", "all_lon_lat",
     "cyclone_tracks", "all_bearing", "init_bearing", "bearing_no_init",
     "bearing_rate", "all_speed", "init_speed", "speed_no_init", "speed_rate",
     "all_pressure", "init_pressure", "pressure_no_init", "pressure_rate",
     "wind_speed"}

\* The time resolver has run.
TimeResolved ==
    pc \in {"split", "origin", "convert", "initindex", "extract",
            "seasonality", "done"}

\* C24: with an age column the elapsed time of every record after the
\* first is the difference of its age and the age before, whatever date
\* string or calendar fields the input holds; the run does not break off
\* for want of a calendar, and ends with every derived series written.
C24_AgePriority ==
    has_key(inputData, "age") =>
        /\ TimeResolved =>
               /\ Len(dt) = Len(inputData["age"])
               /\ \A i \in 2..Len(dt) :
                      dt[i] = 60 * (inputData["age"][i]
                                        - inputData["age"][i - 1])
        /\ pc \notin {"crashed", "failed"}
        /\ pc = "done" => DerivedSeries \subseteq DOMAIN written

\* The input gives month, day and hour but neither year, date nor age.
YearLess ==
    /\ ~has_key(inputData, "age") /\ ~has_key(inputData, "date")
    /\ ~has_key(inputData, "year")
    /\ has_key(inputData, "month") /\ has_key(inputData, "day")
    /\ has_key(inputData, "hour")

\* Record j <= i lies in the track of record i: no track starts after j up
\* to i.
SameTrackBefore(j, i) == \A k \in (j + 1)..i : indicator[k] <= 0

\* C25: in a year-less dataset every record is given year 2001 when a
\* record of its track up to itself falls in January, and year 2000
\* otherwise; the year never decreases inside a track, and every record is
\* given a year under every indicator of the primary strategy.
C25_FillYear ==
    YearLess =>
        /\ pc = "filter" =>
               /\ Len(year) = Len(indicator)
               /\ \A i \in 1..Len(year) :
                      /\ year[i] \in {2000, 2001}
                      /\ year[i] = 2001 <=>
                             \E j \in 1..i : /\ SameTrackBefore(j, i)
                                             /\ month[j] = 1
                      /\ (i > 1 /\ indicator[i] <= 0) => year[i] >= year[i - 1]
        /\ ~(pc = "crashed" /\ year = <<>>)

\* C26: with a vmax column, every element of the wind-speed series is the
\* sentinel or a speed above 0 and at most 200 m/s: the missing-value codes
\* 0, -999 and 9999 of the raw column do not come through.
C26_WindCodes ==
    (Extracted /\ has_key(inputData, "vmax")) =>
        \A i \in 1..Len(written["wind_speed"]) :
            \/ written["wind_speed"][i] = MaxInt
            \/ /\ written["wind_speed"][i] > 0
               /\ written["wind_speed"][i] <= 200

\* The start of the track that record i of the indicator ind belongs to:
\* the last track start up to i, 0 when there is none.
StartOf(ind, i) ==
    LET S == {s \in 1..i : Truthy(ind[s])}
    IN  IF S = {} THEN 0 ELSE CHOOSE s \in S : \A t \in S : t <= s

\* C27: the season filter keeps, with every record it keeps, the start of
\* that record's track: after the filter the record's track starts at the
\* record that started it before, under every primary strategy.
C27_TracksIntact ==
    [][(pc = "filter" /\ has_key(inputData, "season")) =>
          LET good == good_indices(inputData["season"], startSeason)
          IN  /\ Len(indicator') = Len(good)
              /\ \A k \in 1..Len(good) :
                     StartOf(indicator, good[k]) > 0 =>
                         /\ StartOf(indicator', k) > 0
                         /\ good[StartOf(indicator', k)]
                                = StartOf(indicator, good[k])]_vars

\* The elements of a sequence of positions.
Range(sq) == {sq[k] : k \in 1..Len(sq)}

\* The positions whose motion is an initial one: after an Initial-Index
\* position.
InitialPositions == Range(AfterInit(initIndex))

\* The positions whose motion is a non-initial one.
NonInitialPositions ==
    {i \in 1..Len(indicator) :
        PutOnes(indicator, AfterInit(initIndex))[i] = 0}

\* C28: for bearing and for speed the track starts, the initial positions
\* and the non-initial positions are pairwise disjoint and cover every
\* record, so the number of track starts and the lengths of the initial
\* and the non-initial series add up to the number of records.
C28_ExactPartition ==
    Extracted =>
        /\ Range(StartPositions) \cap InitialPositions = {}
        /\ Range(StartPositions) \cap NonInitialPositions = {}
        /\ InitialPositions \cap NonInitialPositions = {}
        /\ Range(StartPositions) \cup InitialPositions
               \cup NonInitialPositions = 1..Len(indicator)
        /\ Tracks + Len(written["init_bearing"])
               + Len(written["bearing_no_init"]) = Len(indicator)
        /\ Tracks + Len(written["init_speed"])
               + Len(written["speed_no_init"]) = Len(indicator)

\* The array a with element 0 set to zero: what a run holds whose
\* unassigned storage happens to be zero.
ZeroHead(a) == [i \in 1..Len(a) |-> IF i = 1 THEN 0 ELSE a[i]]

\* The wind array of such a run.
ZeroVmax ==
    IF has_key(inputData, "vmax")
    THEN ConvertKeepingSentinel(inputData["vmax"], inputSpeedUnits)
    ELSE zeros(Len(indicator))

\* C29: the series written are a function of the input and the
\* configuration alone: every run writes what the run writes whose
\* unassigned elements (element 0 of the elapsed-time, bearing, distance
\* and change arrays, the substitute of an absent max-wind column) all hold
\* zero.
C29_Deterministic ==
    Extracted =>
        LET n == Len(indicator)
            azi == latLon2Azi(lat, lon)
            dt0 == ZeroHead(dt)
            bear0 == MaskedBearing(WithGarbageHead(0, azi.bear_, n),
                                   indicator)
            dist0 == WithGarbageHead(0, azi.dist_, n)
        IN  /\ written["all_bearing"] = bear0
            /\ written["bearing_rate"] = BearingRate(bear0, dt0, indicator, 0)
            /\ written["all_speed"] = Speed(dist0, dt0, indicator)
            /\ written["speed_rate"] = SpeedRate(dist0, dt0, indicator, 0)
            /\ written["pressure_rate"]
                   = PressureRate(pressure, dt0, indicator, 0)
            /\ written["wind_speed"] = WindSpeed(ZeroVmax)
            /\ has_key(inputData, "rmax") =>
                   written["rmax_rate"]
                       = RmaxRate(written["all_rmax"], dt0, indicator, 0)

\* C30: a run that has ended has written every derived series when it
\* completed and no series at all when it failed: every failure comes
\* before the first output, the origin year series.
C30_AllOrNothing ==
    /\ pc = "done" => DerivedSeries \subseteq DOMAIN written
    /\ pc \in {"failed", "crashed"} => written = <<>>

=============================================================================
